---- MODULE Spec2Model ----
(***************************************************************************)
(* Model of direct_rar_tester.py: the two-tier verifier                    *)
(* (test_password_worker), the single-password mode                        *)
(* (test_password_directly) and the parallel dispatcher                    *)
(* (test_from_wordlist) running on a ProcessPoolExecutor.                  *)
(***************************************************************************)
EXTENDS Integers, Sequences, FiniteSets, TLC

\* ---------------------------------------------------------------- bounds
MaxCandidates == 3
MaxWorkers == 2
MaxLines == 2

\* ------------------------------------------------------- program constants
\* ProcessPoolExecutor keeps max_workers + EXTRA_QUEUED_CALLS call items in
\* its call queue; a future whose item is in that queue is RUNNING and can
\* no longer be cancelled.
EXTRA_QUEUED_CALLS == 1

NoneVal == "<None>"
Passwords == {"pw1", "pw2"}

\* Line 197: a progress line is printed every 10th completion.
ProgressEvery == 10

\* ------------------------------------------------------------- tool output
\* The text of the external tool is a sequence of tokens; a Python
\* substring test `marker in output` is membership of the marker token.
Contains(output, marker) == \E k \in 1..Len(output) : output[k] = marker

\* str.lower() on the tokens that occur in the model.
LowerToken(tok) ==
    CASE tok = "FILES"  -> "files"
      [] tok = "README" -> "readme"
      [] tok = ".txt"   -> ".txt"
      [] tok = "All OK" -> "all ok"
      [] tok = "Incorrect password" -> "incorrect password"
      [] tok = "Wrong password" -> "wrong password"
      [] OTHER -> tok

Lower(output) == [k \in 1..Len(output) |-> LowerToken(output[k])]

\* result.stdout + result.stderr
Output(res) == res.stdout \o res.stderr

HasFailureMarker(output) ==
    Contains(output, "Incorrect password") \/ Contains(output, "Wrong password")

\* Mutant: the listing check without .lower().
HasListingEvidenceCaseSensitive(output2) ==
    \/ Contains(output2, "README")
    \/ Contains(output2, ".txt")
    \/ Contains(output2, "files")

\* "README" in output2 or ".txt" in output2 or "files" in output2.lower()
HasListingEvidence(output2) ==
    \/ Contains(output2, "README")
    \/ Contains(output2, ".txt")
    \/ Contains(Lower(output2), "files")

Outcome(c, p, m) == [is_correct |-> c, password |-> p, method |-> m]
NoResult == Outcome(FALSE, "", "none")

\* Mutant: the failure markers are tested before the success marker.
AfterPrimaryFailureFirst(res, password) ==
    IF res.raised
      THEN [done |-> TRUE, outcome |-> Outcome(FALSE, password, "error")]
    ELSE IF HasFailureMarker(Output(res))
      THEN [done |-> TRUE, outcome |-> Outcome(FALSE, password, "wrong")]
    ELSE IF Contains(Output(res), "All OK")
      THEN [done |-> TRUE, outcome |-> Outcome(TRUE, password, "unrar t")]
    ELSE IF res.returncode = 0
      THEN [done |-> FALSE, outcome |-> NoResult]
    ELSE [done |-> TRUE, outcome |-> Outcome(FALSE, password, "error")]

\* Mutant: the second invocation is issued whatever the first exit status.
AfterPrimaryIgnoreExit(res, password) ==
    IF res.raised
      THEN [done |-> TRUE, outcome |-> Outcome(FALSE, password, "error")]
    ELSE IF Contains(Output(res), "All OK")
      THEN [done |-> TRUE, outcome |-> Outcome(TRUE, password, "unrar t")]
    ELSE IF HasFailureMarker(Output(res))
      THEN [done |-> TRUE, outcome |-> Outcome(FALSE, password, "wrong")]
    ELSE [done |-> FALSE, outcome |-> NoResult]

\* The part of test_password_worker that follows the first subprocess.run:
\* done = FALSE means the second invocation is issued.
AfterPrimary(res, password) ==
    IF res.raised
      THEN [done |-> TRUE, outcome |-> Outcome(FALSE, password, "error")]
    ELSE IF Contains(Output(res), "All OK")
      THEN [done |-> TRUE, outcome |-> Outcome(TRUE, password, "unrar t")]
    ELSE IF HasFailureMarker(Output(res))
      THEN [done |-> TRUE, outcome |-> Outcome(FALSE, password, "wrong")]
    ELSE IF res.returncode = 0
      THEN [done |-> FALSE, outcome |-> NoResult]
    ELSE [done |-> TRUE, outcome |-> Outcome(FALSE, password, "error")]

\* Mutant: the second subprocess.run is outside the try block, so its
\* exception leaves the function.
AfterSecondaryUncaught(res2, password) ==
    IF res2.raised
      THEN Outcome(FALSE, password, "exception")
    ELSE IF /\ res2.returncode = 0
            /\ ~HasFailureMarker(Output(res2))
            /\ HasListingEvidence(Output(res2))
      THEN Outcome(TRUE, password, "unrar lt")
    ELSE IF HasFailureMarker(Output(res2))
      THEN Outcome(FALSE, password, "wrong")
    ELSE Outcome(FALSE, password, "error")

\* The part of test_password_worker that follows the second subprocess.run.
AfterSecondary(res2, password) ==
    IF res2.raised
      THEN Outcome(FALSE, password, "error")
    ELSE IF /\ res2.returncode = 0
            /\ ~HasFailureMarker(Output(res2))
            /\ HasListingEvidence(Output(res2))
      THEN Outcome(TRUE, password, "unrar lt")
    ELSE IF HasFailureMarker(Output(res2))
      THEN Outcome(FALSE, password, "wrong")
    ELSE Outcome(FALSE, password, "error")

\* test_password_worker as a function of the tool's two answers.
test_password_worker(scr, password) ==
    LET a == AfterPrimary(scr.primary, password)
    IN  IF a.done THEN a.outcome ELSE AfterSecondary(scr.secondary, password)

\* ------------------------------------------------------------ tool scripts
\* What the external tool answers to the first and to the second invocation
\* for one candidate: raised = TRUE is a timeout or a spawn failure.
ToolResult(r, rc, so, se) ==
    [raised |-> r, returncode |-> rc, stdout |-> so, stderr |-> se]
Raised == ToolResult(TRUE, 1, <<>>, <<>>)

PrimaryTokens == {"All OK", "Incorrect password", "Wrong password", "noise"}
SecondaryTokens ==
    {"Incorrect password", "Wrong password", "README", ".txt", "files", "FILES",
     "readme"}

Texts(tokens) == {<<>>} \cup {<<t>> : t \in tokens}

Results(tokens) ==
    {Raised} \cup
    {ToolResult(FALSE, rc, so, se) :
        rc \in {0, 1}, so \in Texts(tokens), se \in Texts(tokens)}

AllScripts ==
    [primary : Results(PrimaryTokens), secondary : Results(SecondaryTokens)]

Quiet == ToolResult(FALSE, 0, <<>>, <<>>)
ScriptAllOK == [primary |-> ToolResult(FALSE, 0, <<"All OK">>, <<>>),
                secondary |-> Quiet]
ScriptWrong == [primary |-> ToolResult(FALSE, 1, <<>>, <<"Incorrect password">>),
                secondary |-> Quiet]
ScriptListing == [primary |-> Quiet,
                  secondary |-> ToolResult(FALSE, 0, <<"README">>, <<>>)]
ScriptTimeout == [primary |-> Raised, secondary |-> Quiet]

\* The answers used for the candidates of a wordlist run.
PoolScripts == {ScriptAllOK, ScriptWrong, ScriptListing, ScriptTimeout}


\* -------------------------------------------------------------------- state
VARIABLES
    pc,              \* position of the caller: test_from_wordlist / test_password_directly
    wordlist_exists, \* os.path.exists(wordlist_file)
    wordlist,        \* the lines of the wordlist file
    script,          \* script[i]: what the tool answers for unit i
    num_workers,     \* max_workers of the pool
    passwords,       \* the list read at line 142
    status,          \* status[i]: state of unit i (its future and its call item)
    result,          \* result[i]: the outcome set on future i
    invocations,     \* invocations[i]: subprocess.run calls made for unit i
    consumed,        \* futures as_completed has yielded to the loop body
    completed,       \* the local counter `completed`
    total,           \* the local `total`
    found_password,  \* the module global found_password
    ret,             \* the value returned to the caller
    report,          \* the final message printed
    first_correct,   \* history: first unit whose Correct outcome the loop consumed
    begun_at_latch,  \* history: units whose verification had begun at the latch
    prior_found,     \* history: an earlier call in this process returned a password
    cli,             \* the command line, the position of run_cli_mode, the exit status
    gpc,             \* position of main() of the wordlist generator
    keywords,        \* what load_keywords returned
    patterns,        \* the list of patterns
    args,            \* the parsed options of the generator
    chunks,          \* the order chunks handed to pool.map
    done_chunks,     \* chunks whose worker has returned
    results,         \* results[c]: what worker returned for chunk c
    output_file,     \* the entries (lines) of the output file
    total_count,     \* the local total_count
    previous_output  \* history: what an earlier execution left in the output file

vars == <<pc, wordlist_exists, wordlist, script, num_workers, passwords, status,
          result, invocations, consumed, completed, total, found_password, ret,
          report, first_correct, begun_at_latch, prior_found, cli,
          gpc, keywords, patterns, args, chunks, done_chunks, results,
          output_file, total_count, previous_output>>

\* The variables of the password tester and those of the wordlist generator.
testervars == <<pc, wordlist_exists, wordlist, script, num_workers, passwords,
                status, result, invocations, consumed, completed, total,
                found_password, ret, report, first_correct, begun_at_latch,
                prior_found, cli>>
genvars == <<gpc, keywords, patterns, args, chunks, done_chunks, results,
             output_file, total_count, previous_output>>

\* No earlier execution of the generator.
NoOutput == [ran |-> FALSE, entries |-> <<>>]

\* The generator is not running: the password tester is.
GenIdle ==
    /\ gpc = "none"
    /\ keywords = <<>>
    /\ patterns = <<>>
    /\ args = [mode |-> "permutation"]
    /\ chunks = <<>>
    /\ done_chunks = {}
    /\ results = <<>>
    /\ output_file = <<>>
    /\ total_count = 0
    /\ previous_output = NoOutput

Units == 1..Len(status)

\* The value of cli when the functions are called directly, not by main().
NoCli == [pc |-> "none"]

SeqsUpTo(S, n) == UNION {[1..k -> S] : k \in 0..n}

UnitsIn(states) == {i \in Units : status[i] \in states}

Min(S) == CHOOSE x \in S : \A y \in S : x <= y

\* str.strip() on the lines that occur in the model: " " is a line of
\* white space only, " pw2 " a password with white space around it.
Strip(line) ==
    CASE line = " pw2 " -> "pw2"
      [] line = " "     -> ""
      [] OTHER          -> line

\* Mutant: the lines are stripped but the empty ones are kept.
ReadPasswordsUnfiltered(lines) == [k \in 1..Len(lines) |-> Strip(lines[k])]

\* Line 142: [line.strip() for line in f if line.strip()]
ReadPasswords(lines) ==
    LET NonEmpty(x) == x # ""
    IN  SelectSeq([k \in 1..Len(lines) |-> Strip(lines[k])], NonEmpty)

\* ---------------------------------------------------------- wordlist run
\* Module load (lines 16-19) followed by a call of test_from_wordlist.
\* A missing file has no lines; the wordlists are taken up to a renaming of
\* the passwords (nothing depends on a password's name), so the first
\* candidate is "pw1" and a later one repeats it or differs from it.
Init ==
    /\ pc = "Idle"
    /\ wordlist_exists \in BOOLEAN
    /\ wordlist \in SeqsUpTo(Passwords, MaxCandidates)
    /\ (wordlist # <<>> => wordlist[1] = "pw1")
    /\ (~wordlist_exists => wordlist = <<>>)
    /\ script \in [1..Len(wordlist) -> PoolScripts]
    /\ num_workers \in 1..MaxWorkers
    /\ passwords = <<>>
    /\ status = <<>>
    /\ result = <<>>
    /\ invocations = <<>>
    /\ consumed = {}
    /\ completed = 0
    /\ total = 0
    /\ found_password = NoneVal
    /\ ret = NoneVal
    /\ report = ""
    /\ first_correct = 0
    /\ begun_at_latch = {}
    /\ prior_found = FALSE
    /\ cli = NoCli
    /\ GenIdle

\* Lines 136-138: the wordlist file does not exist.
RejectMissing ==
    /\ pc = "Idle"
    /\ ~wordlist_exists
    /\ pc' = "Rejected"
    /\ report' = "wordlist not found"
    /\ ret' = NoneVal
    /\ UNCHANGED <<wordlist_exists, wordlist, script, num_workers, passwords,
                   status, result, invocations, consumed, completed, total,
                   found_password, first_correct, begun_at_latch>>
    /\ UNCHANGED <<prior_found, cli, genvars>>

\* Lines 141-146: the wordlist holds no password.
RejectEmpty ==
    /\ pc = "Idle"
    /\ wordlist_exists
    /\ ReadPasswords(wordlist) = <<>>
    /\ passwords' = ReadPasswords(wordlist)
    /\ pc' = "Rejected"
    /\ report' = "no passwords"
    /\ ret' = NoneVal
    /\ UNCHANGED <<wordlist_exists, wordlist, script, num_workers,
                   status, result, invocations, consumed, completed, total,
                   found_password, first_correct, begun_at_latch>>
    /\ UNCHANGED <<prior_found, cli, genvars>>

\* Mutant: found_password is not reset (the `global` statement and the
\* assignment of lines 158-159 are missing).
StartRunNoReset ==
    /\ pc = "Idle"
    /\ wordlist_exists
    /\ ReadPasswords(wordlist) # <<>>
    /\ passwords' = ReadPasswords(wordlist)
    /\ completed' = 0
    /\ total' = Len(passwords')
    /\ status' = [i \in 1..Len(passwords') |-> "pending"]
    /\ result' = [i \in 1..Len(passwords') |-> NoResult]
    /\ invocations' = [i \in 1..Len(passwords') |-> 0]
    /\ consumed' = {}
    /\ pc' = "Dispatching"
    /\ UNCHANGED <<wordlist_exists, wordlist, script, num_workers, ret, report,
                   first_correct, begun_at_latch, found_password>>
    /\ UNCHANGED <<prior_found, cli, genvars>>

\* Lines 141-171: read the passwords, reset found_password and the counters,
\* create the pool and submit one unit per password (every future PENDING).
StartRun ==
    /\ pc = "Idle"
    /\ wordlist_exists
    /\ ReadPasswords(wordlist) # <<>>
    /\ passwords' = ReadPasswords(wordlist)
    /\ found_password' = NoneVal
    /\ completed' = 0
    /\ total' = Len(passwords')
    /\ status' = [i \in 1..Len(passwords') |-> "pending"]
    /\ result' = [i \in 1..Len(passwords') |-> NoResult]
    /\ invocations' = [i \in 1..Len(passwords') |-> 0]
    /\ consumed' = {}
    /\ pc' = "Dispatching"
    /\ UNCHANGED <<wordlist_exists, wordlist, script, num_workers, ret, report,
                   first_correct, begun_at_latch>>
    /\ UNCHANGED <<prior_found, cli, genvars>>

\* ------------------------------------------------------------------ the pool
\* The executor's manager thread moves the oldest pending work item into the
\* call queue while the queue is not full; its future becomes RUNNING.
Feed ==
    /\ pc \in {"Dispatching", "Shutdown"}
    /\ UnitsIn({"pending"}) # {}
    /\ Cardinality(UnitsIn({"queued"})) < num_workers + EXTRA_QUEUED_CALLS
    /\ status' = [status EXCEPT ![Min(UnitsIn({"pending"}))] = "queued"]
    /\ UNCHANGED <<pc, wordlist_exists, wordlist, script, num_workers, passwords,
                   result, invocations, consumed, completed, total,
                   found_password, ret, report, first_correct, begun_at_latch>>
    /\ UNCHANGED <<prior_found, cli, genvars>>

\* Mutant: the pool runs one unit at a time, whatever max_workers is.
PickUpSerial ==
    /\ pc \in {"Dispatching", "Shutdown"}
    /\ UnitsIn({"queued"}) # {}
    /\ UnitsIn({"primary", "secondary"}) = {}
    /\ status' = [status EXCEPT ![Min(UnitsIn({"queued"}))] = "primary"]
    /\ UNCHANGED <<pc, wordlist_exists, wordlist, script, num_workers, passwords,
                   result, invocations, consumed, completed, total,
                   found_password, ret, report, first_correct, begun_at_latch>>
    /\ UNCHANGED <<prior_found, cli, genvars>>

\* An idle worker process takes the oldest call item from the call queue and
\* enters test_password_worker.
PickUp ==
    /\ pc \in {"Dispatching", "Shutdown"}
    /\ UnitsIn({"queued"}) # {}
    /\ Cardinality(UnitsIn({"primary", "secondary"})) < num_workers
    /\ status' = [status EXCEPT ![Min(UnitsIn({"queued"}))] = "primary"]
    /\ UNCHANGED <<pc, wordlist_exists, wordlist, script, num_workers, passwords,
                   result, invocations, consumed, completed, total,
                   found_password, ret, report, first_correct, begun_at_latch>>
    /\ UNCHANGED <<prior_found, cli, genvars>>

\* Lines 62-79 and 106-109: the first subprocess.run and what follows it.
RunPrimary(i) ==
    /\ status[i] = "primary"
    /\ invocations' = [invocations EXCEPT ![i] = @ + 1]
    /\ LET a == AfterPrimary(script[i].primary, passwords[i])
       IN  IF a.done
             THEN /\ status' = [status EXCEPT ![i] = "finished"]
                  /\ result' = [result EXCEPT ![i] = a.outcome]
             ELSE /\ status' = [status EXCEPT ![i] = "secondary"]
                  /\ UNCHANGED result
    /\ UNCHANGED <<pc, wordlist_exists, wordlist, script, num_workers, passwords,
                   consumed, completed, total, found_password, ret, report,
                   first_correct, begun_at_latch>>
    /\ UNCHANGED <<prior_found, cli, genvars>>

\* Lines 83-109: the second subprocess.run and what follows it.
RunSecondary(i) ==
    /\ status[i] = "secondary"
    /\ invocations' = [invocations EXCEPT ![i] = @ + 1]
    /\ status' = [status EXCEPT ![i] = "finished"]
    /\ result' = [result EXCEPT ![i] = AfterSecondary(script[i].secondary, passwords[i])]
    /\ UNCHANGED <<pc, wordlist_exists, wordlist, script, num_workers, passwords,
                   consumed, completed, total, found_password, ret, report,
                   first_correct, begun_at_latch>>
    /\ UNCHANGED <<prior_found, cli, genvars>>

\* ------------------------------------------------------------ the dispatcher
\* Future.cancel() on every future (lines 186-187): only a PENDING future
\* is cancelled.
CancelAll(st) == [i \in DOMAIN st |-> IF st[i] = "pending" THEN "cancelled" ELSE st[i]]

\* What an iteration that does not latch prints (lines 195-202): the error
\* line when future.result() raised, else the progress line at every 10th
\* completion and at the last one, else nothing; the progress line is the
\* same for an Incorrect and for an Indeterminate outcome.
LoopPrint(outcome, done, all, last) ==
    IF outcome.method = "exception" THEN "error testing"
    ELSE IF done % ProgressEvery = 0 \/ done = all THEN "progress"
    ELSE last

\* Mutant: the truth of the returned tuple is tested, not is_correct.
ShouldLatchAnyOutcome(outcome, fp) == fp = NoneVal

\* Lines 181-183: the outcome is latched.
ShouldLatch(outcome, fp) == outcome.is_correct /\ fp = NoneVal

\* Mutant: no `found_password is None` guard and no break after the latch.
ConsumeOverwrite(i) ==
    /\ pc = "Dispatching"
    /\ status[i] = "finished"
    /\ i \notin consumed
    /\ consumed' = consumed \cup {i}
    /\ completed' = completed + 1
    /\ first_correct' = IF result[i].is_correct /\ first_correct = 0
                          THEN i ELSE first_correct
    /\ IF result[i].is_correct
         THEN /\ found_password' = result[i].password
              /\ status' = CancelAll(status)
              /\ begun_at_latch' = UnitsIn({"primary", "secondary", "finished"})
              /\ report' = "found"
         ELSE UNCHANGED <<found_password, status, begun_at_latch, report>>
    /\ UNCHANGED <<pc, wordlist_exists, wordlist, script, num_workers, passwords,
                   result, invocations, total, ret>>
    /\ UNCHANGED <<prior_found, cli, genvars>>

\* Mutant: an outcome that is not a clear verdict ends the loop.
ConsumeAbortOnError(i) ==
    /\ pc = "Dispatching"
    /\ status[i] = "finished"
    /\ i \notin consumed
    /\ consumed' = consumed \cup {i}
    /\ completed' = completed + 1
    /\ first_correct' = IF result[i].is_correct /\ first_correct = 0
                          THEN i ELSE first_correct
    /\ IF ShouldLatch(result[i], found_password)
         THEN /\ found_password' = result[i].password
              /\ status' = CancelAll(status)
              /\ begun_at_latch' = UnitsIn({"primary", "secondary", "finished"})
              /\ report' = "found"
              /\ pc' = "Shutdown"
         ELSE /\ report' = LoopPrint(result[i], completed + 1, total, report)
              /\ pc' = IF result[i].method \in {"error", "exception"}
                         THEN "Shutdown" ELSE pc
              /\ UNCHANGED <<found_password, status, begun_at_latch>>
    /\ UNCHANGED <<wordlist_exists, wordlist, script, num_workers, passwords,
                   result, invocations, total, ret>>
    /\ UNCHANGED <<prior_found, cli, genvars>>

\* Mutant: `completed += 1` sits in the else branch, after the verdict test.
ConsumeCountAfter(i) ==
    /\ pc = "Dispatching"
    /\ status[i] = "finished"
    /\ i \notin consumed
    /\ consumed' = consumed \cup {i}
    /\ first_correct' = IF result[i].is_correct /\ first_correct = 0
                          THEN i ELSE first_correct
    /\ IF ShouldLatch(result[i], found_password)
         THEN /\ found_password' = result[i].password
              /\ status' = CancelAll(status)
              /\ begun_at_latch' = UnitsIn({"primary", "secondary", "finished"})
              /\ report' = "found"
              /\ pc' = "Shutdown"
              /\ UNCHANGED completed
         ELSE /\ completed' = completed + 1
              /\ report' = LoopPrint(result[i], completed + 1, total, report)
              /\ UNCHANGED <<found_password, status, begun_at_latch, pc>>
    /\ UNCHANGED <<wordlist_exists, wordlist, script, num_workers, passwords,
                   result, invocations, total, ret>>
    /\ UNCHANGED <<prior_found, cli, genvars>>

\* One iteration of the loop at lines 174-202 for the completed future i.
Consume(i) ==
    /\ pc = "Dispatching"
    /\ status[i] = "finished"
    /\ i \notin consumed
    /\ consumed' = consumed \cup {i}
    /\ completed' = completed + 1
    /\ first_correct' = IF result[i].is_correct /\ first_correct = 0
                          THEN i ELSE first_correct
    /\ IF ShouldLatch(result[i], found_password)
         THEN /\ found_password' = result[i].password
              /\ status' = CancelAll(status)
              /\ begun_at_latch' = UnitsIn({"primary", "secondary", "finished"})
              /\ report' = "found"
              /\ pc' = "Shutdown"
         ELSE /\ report' = LoopPrint(result[i], completed + 1, total, report)
              /\ UNCHANGED <<found_password, status, begun_at_latch, pc>>
    /\ UNCHANGED <<wordlist_exists, wordlist, script, num_workers, passwords,
                   result, invocations, total, ret>>
    /\ UNCHANGED <<prior_found, cli, genvars>>

\* Mutant: the loop is left after the first result, whatever it is.
LoopEndAfterFirst ==
    /\ pc = "Dispatching"
    /\ consumed # {}
    /\ pc' = "Shutdown"
    /\ UNCHANGED <<wordlist_exists, wordlist, script, num_workers, passwords,
                   status, result, invocations, consumed, completed, total,
                   found_password, ret, report, first_correct, begun_at_latch>>
    /\ UNCHANGED <<prior_found, cli, genvars>>

\* as_completed is exhausted: every future has been yielded.
LoopEnd ==
    /\ pc = "Dispatching"
    /\ consumed = Units
    /\ pc' = "Shutdown"
    /\ UNCHANGED <<wordlist_exists, wordlist, script, num_workers, passwords,
                   status, result, invocations, consumed, completed, total,
                   found_password, ret, report, first_correct, begun_at_latch>>
    /\ UNCHANGED <<prior_found, cli, genvars>>

\* Mutant: the shutdown also waits for the cancelled futures.
PoolDrainedAllFinished == \A i \in Units : status[i] = "finished"

\* Leaving the `with` block is executor.shutdown(wait=True): it returns when
\* every work item that was not cancelled has run.
PoolDrained == \A i \in Units : status[i] \in {"finished", "cancelled"}

\* Mutant: the test of line 204 inverted.
ReturnValueInverted(fp) == IF fp # NoneVal /\ fp # "" THEN NoneVal ELSE fp

\* Lines 204-208.
ReturnValue(fp) == IF fp # NoneVal /\ fp # "" THEN fp ELSE NoneVal

Return ==
    /\ pc = "Shutdown"
    /\ PoolDrained
    /\ ret' = ReturnValue(found_password)
    /\ pc' = IF ReturnValue(found_password) # NoneVal THEN "Found" ELSE "Exhausted"
    /\ report' = IF ReturnValue(found_password) # NoneVal THEN report ELSE "not found"
    /\ UNCHANGED <<wordlist_exists, wordlist, script, num_workers, passwords,
                   status, result, invocations, consumed, completed, total,
                   found_password, first_correct, begun_at_latch>>
    /\ UNCHANGED <<prior_found, cli, genvars>>

Next ==
    \/ RejectMissing
    \/ RejectEmpty
    \/ StartRun
    \/ Feed
    \/ PickUp
    \/ \E i \in Units : RunPrimary(i)
    \/ \E i \in Units : RunSecondary(i)
    \/ \E i \in Units : Consume(i)
    \/ LoopEnd
    \/ Return

Spec == Init /\ [][Next]_vars

\* Every thread and process of the run is scheduled: the dispatcher, the
\* manager thread and the workers each take their next step eventually.
FairSpec == Spec /\ WF_vars(Next)


\* ------------------------------------------------------- a worker that dies
\* The future of a unit that cannot deliver a result holds an exception, and
\* future.result() raises it at line 179.
Broken(password) == Outcome(FALSE, password, "exception")

\* A worker process dies inside a unit (killed, out of memory): the pool is
\* broken and sets BrokenProcessPool on the future of every unit that has
\* not finished, which completes those futures.
WorkerCrash ==
    /\ pc \in {"Dispatching", "Shutdown"}
    /\ UnitsIn({"primary", "secondary"}) # {}
    /\ status' = [i \in Units |->
                     IF status[i] \in {"finished", "cancelled"}
                       THEN status[i] ELSE "finished"]
    /\ result' = [i \in Units |->
                     IF status[i] \in {"finished", "cancelled"}
                       THEN result[i] ELSE Broken(passwords[i])]
    /\ UNCHANGED <<pc, wordlist_exists, wordlist, script, num_workers, passwords,
                   invocations, consumed, completed, total, found_password,
                   ret, report, first_correct, begun_at_latch>>
    /\ UNCHANGED <<prior_found, cli, genvars>>

NextCrash ==
    \/ Next
    \/ WorkerCrash

SpecCrash == Init /\ [][NextCrash]_vars

\* ------------------------------------------------ several calls, one process
\* The lines a wordlist file is made of: a password, a password with white
\* space around it, a line of white space only.
FileLines == {"pw1", " pw2 ", " "}

\* What the tool answers in the calls of a process: the password opens the
\* archive (seen by the primary or by the secondary test), or the tool
\* prints the wrong-password marker.
RunScripts == {ScriptAllOK, ScriptListing, ScriptWrong}

\* The arguments of one call of test_from_wordlist and what the tool will
\* answer for each password read from the file.
CallInputs(exists, lines, answers, workers) ==
    /\ exists \in BOOLEAN
    /\ lines \in SeqsUpTo(FileLines, MaxLines)
    /\ ~exists => lines = <<>>
    /\ answers \in [1..Len(ReadPasswords(lines)) -> RunScripts]
    /\ workers \in 1..MaxWorkers

InitRuns ==
    /\ pc = "Idle"
    /\ CallInputs(wordlist_exists, wordlist, script, num_workers)
    /\ passwords = <<>>
    /\ status = <<>>
    /\ result = <<>>
    /\ invocations = <<>>
    /\ consumed = {}
    /\ completed = 0
    /\ total = 0
    /\ found_password = NoneVal
    /\ ret = NoneVal
    /\ report = ""
    /\ first_correct = 0
    /\ begun_at_latch = {}
    /\ prior_found = FALSE
    /\ cli = NoCli
    /\ GenIdle

\* test_from_wordlist has returned and is called again in the same process:
\* the locals of the previous call are gone, the module global
\* found_password (line 18) keeps its value.
NewCall ==
    /\ pc \in {"Found", "Exhausted", "Rejected"}
    /\ pc' = "Idle"
    /\ CallInputs(wordlist_exists', wordlist', script', num_workers')
    /\ passwords' = <<>>
    /\ status' = <<>>
    /\ result' = <<>>
    /\ invocations' = <<>>
    /\ consumed' = {}
    /\ completed' = 0
    /\ total' = 0
    /\ ret' = NoneVal
    /\ report' = ""
    /\ first_correct' = 0
    /\ begun_at_latch' = {}
    /\ prior_found' = (prior_found \/ pc = "Found")
    /\ UNCHANGED <<found_password, cli, genvars>>

NextRuns ==
    \/ Next
    \/ NewCall

SpecRuns == InitRuns /\ [][NextRuns]_vars

\* ------------------------------------------------------ single-password mode
\* A call of test_password_directly(password, rar_file): the caller runs
\* test_password_worker itself, as unit 1, with no pool.
InitDirect ==
    /\ pc = "Direct"
    /\ wordlist_exists = FALSE
    /\ wordlist = <<>>
    /\ script \in [1..1 -> AllScripts]
    /\ num_workers = 1
    /\ passwords \in [1..1 -> Passwords]
    /\ status = <<"primary">>
    /\ result = <<NoResult>>
    /\ invocations = <<0>>
    /\ consumed = {}
    /\ completed = 0
    /\ total = 0
    /\ found_password = NoneVal
    /\ ret = NoneVal
    /\ report = ""
    /\ first_correct = 0
    /\ begun_at_latch = {}
    /\ prior_found = FALSE
    /\ cli = NoCli
    /\ GenIdle

\* Lines 116-131: print the verdict and return is_correct.
DirectReport ==
    /\ pc = "Direct"
    /\ status[1] = "finished"
    /\ report' = IF result[1].is_correct THEN "found"
                 ELSE IF result[1].method = "wrong" THEN "wrong"
                 ELSE "error"
    /\ ret' = IF result[1].is_correct THEN "True" ELSE "False"
    /\ pc' = "DirectDone"
    /\ UNCHANGED <<wordlist_exists, wordlist, script, num_workers, passwords,
                   status, result, invocations, consumed, completed, total,
                   found_password, first_correct, begun_at_latch>>
    /\ UNCHANGED <<prior_found, cli, genvars>>

NextDirect ==
    \/ \E i \in Units : RunPrimary(i)
    \/ \E i \in Units : RunSecondary(i)
    \/ DirectReport

SpecDirect == InitDirect /\ [][NextDirect]_vars


\* ------------------------------------------------------ command-line program
\* main() with arguments (lines 360-371) calling run_cli_mode (273-308).
\* cli.file says what -f names, cli.password is the -p argument, cli.wordlist
\* says whether -w was given, cli.p_tests counts the tool invocations made
\* for the -p password, cli.exit is the exit status of the process.
CliArgs ==
    [pc : {"start"}, file : {"none", "missing", "present"},
     password : {NoneVal} \cup Passwords, wordlist : BOOLEAN,
     p_tests : {0}, exit : {0}]

InitCli ==
    /\ cli \in CliArgs
    /\ GenIdle
    /\ pc = "Cli"
    /\ wordlist_exists = FALSE
    /\ wordlist = <<>>
    /\ script = <<>>
    /\ num_workers = 1
    /\ passwords = <<>>
    /\ status = <<>>
    /\ result = <<>>
    /\ invocations = <<>>
    /\ consumed = {}
    /\ completed = 0
    /\ total = 0
    /\ found_password = NoneVal
    /\ ret = NoneVal
    /\ report = ""
    /\ first_correct = 0
    /\ begun_at_latch = {}
    /\ prior_found = FALSE

\* Lines 278-282: no -f; the error and the help are printed and
\* run_cli_mode returns.
CliNoFile ==
    /\ cli.pc = "start"
    /\ cli.file = "none"
    /\ report' = "file required"
    /\ cli' = [cli EXCEPT !.pc = "returned"]
    /\ UNCHANGED <<pc, wordlist_exists, wordlist, script, num_workers, passwords,
                   status, result, invocations, consumed, completed, total,
                   found_password, ret, first_correct, begun_at_latch,
                   prior_found, genvars>>

\* Lines 284-286: the path of -f does not exist.
CliFileNotFound ==
    /\ cli.pc = "start"
    /\ cli.file = "missing"
    /\ report' = "file not found"
    /\ cli' = [cli EXCEPT !.pc = "returned"]
    /\ UNCHANGED <<pc, wordlist_exists, wordlist, script, num_workers, passwords,
                   status, result, invocations, consumed, completed, total,
                   found_password, ret, first_correct, begun_at_latch,
                   prior_found, genvars>>

\* Lines 296-300: -p was given; test_password_directly is called.
CliTestPassword ==
    /\ cli.pc = "start"
    /\ cli.file = "present"
    /\ cli.password # NoneVal
    /\ pc' = "Direct"
    /\ passwords' = <<cli.password>>
    /\ script' \in [1..1 -> PoolScripts]
    /\ status' = <<"primary">>
    /\ result' = <<NoResult>>
    /\ invocations' = <<0>>
    /\ cli' = [cli EXCEPT !.pc = "direct"]
    /\ UNCHANGED <<wordlist_exists, wordlist, num_workers, consumed, completed,
                   total, found_password, ret, report, first_correct,
                   begun_at_latch, prior_found, genvars>>

\* Line 296: -p was not given.
CliSkipPassword ==
    /\ cli.pc = "start"
    /\ cli.file = "present"
    /\ cli.password = NoneVal
    /\ cli' = [cli EXCEPT !.pc = "checked"]
    /\ UNCHANGED <<pc, wordlist_exists, wordlist, script, num_workers, passwords,
                   status, result, invocations, consumed, completed, total,
                   found_password, ret, report, first_correct, begun_at_latch,
                   prior_found, genvars>>

\* Line 300: test_password_directly has returned; its value is dropped.
CliAfterPassword ==
    /\ cli.pc = "direct"
    /\ pc = "DirectDone"
    /\ cli' = [cli EXCEPT !.pc = "checked", !.p_tests = invocations[1]]
    /\ UNCHANGED <<pc, wordlist_exists, wordlist, script, num_workers, passwords,
                   status, result, invocations, consumed, completed, total,
                   found_password, ret, report, first_correct, begun_at_latch,
                   prior_found, genvars>>

\* Lines 302-308: -w was given; the note that the password is ignored is
\* printed when -p was given too, and test_from_wordlist is called.
CliWordlist ==
    /\ cli.pc = "checked"
    /\ cli.wordlist
    /\ report' = IF cli.password # NoneVal THEN "password ignored" ELSE report
    /\ pc' = "Idle"
    /\ CallInputs(wordlist_exists', wordlist', script', num_workers')
    /\ passwords' = <<>>
    /\ status' = <<>>
    /\ result' = <<>>
    /\ invocations' = <<>>
    /\ ret' = NoneVal
    /\ cli' = [cli EXCEPT !.pc = "wordlist"]
    /\ UNCHANGED <<consumed, completed, total, found_password, first_correct,
                   begun_at_latch, prior_found, genvars>>

\* Line 308 and the end of run_cli_mode: nothing is left to do.
CliReturn ==
    /\ \/ cli.pc = "checked" /\ ~cli.wordlist
       \/ cli.pc = "wordlist" /\ pc \in {"Found", "Exhausted", "Rejected"}
    /\ cli' = [cli EXCEPT !.pc = "returned"]
    /\ UNCHANGED <<pc, wordlist_exists, wordlist, script, num_workers, passwords,
                   status, result, invocations, consumed, completed, total,
                   found_password, ret, report, first_correct, begun_at_latch,
                   prior_found, genvars>>

\* Lines 360-375: main() returns and the script ends; there is no sys.exit
\* anywhere, so the interpreter exits with status 0.
CliExit ==
    /\ cli.pc = "returned"
    /\ cli' = [cli EXCEPT !.pc = "exited", !.exit = 0]
    /\ UNCHANGED <<pc, wordlist_exists, wordlist, script, num_workers, passwords,
                   status, result, invocations, consumed, completed, total,
                   found_password, ret, report, first_correct, begun_at_latch,
                   prior_found, genvars>>

NextCli ==
    \/ CliNoFile
    \/ CliFileNotFound
    \/ CliTestPassword
    \/ CliSkipPassword
    \/ CliAfterPassword
    \/ CliWordlist
    \/ CliReturn
    \/ CliExit
    \/ DirectReport
    \/ Next

SpecCli == InitCli /\ [][NextCli]_vars


\* ========================================================= wordlist generator
\* src/my_wordlist_generator.py.  A string is the sequence of its characters.
MaxKeywords == 2
MaxProcesses == 2
MaxLeetable == 1
MaxLeetPatterns == 1

\* The keywords a keywords file may hold and the pattern lists -p may give
\* ("1" and ",1": str.split(',') of a non-empty string).
KeywordPool == {<<"o">>, <<"1">>}
PatternLists == {<< <<"1">> >>, << <<>>, <<"1">> >>}

LEET_MAP ==
    ("a" :> <<"4", "@", "A">>) @@ ("b" :> <<"8", "B">>) @@
    ("e" :> <<"3", "E">>) @@ ("g" :> <<"6", "9", "G">>) @@
    ("i" :> <<"1", "!", "I">>) @@ ("l" :> <<"1", "L">>) @@
    ("o" :> <<"0", "O">>) @@ ("s" :> <<"5", "$", "S">>) @@
    ("t" :> <<"7", "+", "T">>) @@ ("z" :> <<"2", "S">>)

Range(f) == {f[k] : k \in DOMAIN f}

Max(S) == CHOOSE x \in S : \A y \in S : x >= y

RECURSIVE Flatten(_)
Flatten(seqs) == IF seqs = <<>> THEN <<>> ELSE Head(seqs) \o Flatten(Tail(seqs))

\* char.lower() on the characters that occur.
CharLower(char) ==
    CASE char = "O" -> "o"
      [] char = "A" -> "a"
      [] char = "B" -> "b"
      [] char = "E" -> "e"
      [] char = "G" -> "g"
      [] char = "I" -> "i"
      [] char = "L" -> "l"
      [] char = "S" -> "s"
      [] char = "T" -> "t"
      [] OTHER -> char

\* Lines 84-89: what one character may become; random.random() and
\* random.choice are not seeded, every outcome is possible.
LeetChar(char) ==
    {char} \cup
    (IF CharLower(char) \in DOMAIN LEET_MAP
       THEN Range(LEET_MAP[CharLower(char)]) ELSE {})

\* apply_leet(word, 1): the set of strings it may return.
RECURSIVE apply_leet(_)
apply_leet(word) ==
    IF word = <<>> THEN {<<>>}
    ELSE {<<char>> \o rest :
             char \in LeetChar(Head(word)), rest \in apply_leet(Tail(word))}

\* The tuples of p extended by one more index of 1..n: any index not in p
\* (permutations) or any index after the last of p (combinations).
Extend(p, n, increasing) ==
    LET cand == SelectSeq([i \in 1..n |-> i],
                          LAMBDA i : /\ \A m \in 1..Len(p) : p[m] # i
                                     /\ increasing /\ p # <<>> => i > p[Len(p)])
    IN  [j \in 1..Len(cand) |-> Append(p, cand[j])]

\* itertools.permutations / itertools.combinations over the positions of a
\* list of n elements, r at a time, in the order itertools yields them.
RECURSIVE IndexTuples(_, _, _)
IndexTuples(n, r, increasing) ==
    IF r <= 0 THEN << <<>> >>
    ELSE LET shorter == IndexTuples(n, r - 1, increasing)
         IN  Flatten([k \in 1..Len(shorter) |-> Extend(shorter[k], n, increasing)])

\* Lines 115-118 (and 122-125): the entries one tuple of keywords gives,
\* one per combination of patterns; zip stops at the shorter of the two.
Entries(tuple, kws, pats) ==
    LET num_pattern == Max({Len(tuple) - 1, 1})
        combs == IndexTuples(Len(pats), Min({num_pattern, Len(pats)}), TRUE)
        Joined(comb) ==
            LET padded == [k \in 1..Len(comb) |-> pats[comb[k]]] \o << <<>> >>
                n == Min({Len(tuple), Len(padded)})
            IN  Flatten([k \in 1..n |-> kws[tuple[k]] \o padded[k]])
    IN  [c \in 1..Len(combs) |-> Joined(combs[c])]

\* Lines 111-125: the entries of one order.
OrderResults(order, kws, pats, mode) ==
    LET Of(tuples) == Flatten([t \in 1..Len(tuples) |-> Entries(tuples[t], kws, pats)])
    IN  (IF mode \in {"permutation", "both"}
           THEN Of(IndexTuples(Len(kws), order, FALSE)) ELSE <<>>)
        \o
        (IF mode \in {"combination", "both"} /\ order > 1
           THEN Of(IndexTuples(Len(kws), order, TRUE)) ELSE <<>>)

ChunkResults(order_chunk, kws, pats, mode) ==
    Flatten([k \in 1..Len(order_chunk) |-> OrderResults(order_chunk[k], kws, pats, mode)])

\* item[::-1]
Reverse(item) == [k \in 1..Len(item) |-> item[Len(item) + 1 - k]]

\* Lines 131-137: every item followed by what apply_leet made of it.
RECURSIVE Leeted(_)
Leeted(items) ==
    IF items = <<>> THEN {<<>>}
    ELSE {<<Head(items), leet>> \o rest :
             leet \in apply_leet(Head(items)), rest \in Leeted(Tail(items))}

\* Lines 139-144: every item followed by its reverse.
Reversed(items) ==
    [k \in 1..(2 * Len(items)) |->
        IF k % 2 = 1 THEN items[(k + 1) \div 2] ELSE Reverse(items[k \div 2])]

\* Lines 173-180: the first occurrence of every item, in order; `seen` is a
\* local of the call.
RECURSIVE Dedupe(_)
Dedupe(items) ==
    IF items = <<>> THEN <<>>
    ELSE LET front == Dedupe(SubSeq(items, 1, Len(items) - 1))
             last == items[Len(items)]
         IN  IF last \in Range(front) THEN front ELSE Append(front, last)

\* Lines 109-180: the lists local_results may be when worker writes them.
\* The options left at their defaults (case_mode, prepend, append, add_num,
\* min_length, max_length, skip_empty) leave the list as it is.
LocalResults(order_chunk, kws, pats, a) ==
    LET generated == ChunkResults(order_chunk, kws, pats, a.mode)
        afterLeet == IF a.leet THEN Leeted(generated) ELSE {generated}
        Rest(items) ==
            LET r == IF a.reverse THEN Reversed(items) ELSE items
            IN  IF a.dedupe THEN Dedupe(r) ELSE r
    IN  {Rest(items) : items \in afterLeet}

\* Lines 280-281: orders.
Orders(kws, a) ==
    LET max_order == IF a.max_order # NoneVal THEN a.max_order ELSE Len(kws)
    IN  [k \in 1..Max({max_order - a.min_order + 1, 0}) |-> a.min_order + k - 1]

\* Lines 284-289: the chunks of orders, for --processes given.
Chunks(orders, a) ==
    LET num_processes == Max({1, a.processes})
        chunk_size == Max({1, Len(orders) \div num_processes})
        count == (Len(orders) + chunk_size - 1) \div chunk_size
    IN  [j \in 1..count |->
            SubSeq(orders, (j - 1) * chunk_size + 1,
                   Min({j * chunk_size, Len(orders)}))]

\* The number of times each entry occurs in a file.
BagOf(file) ==
    [x \in Range(file) |-> Cardinality({k \in 1..Len(file) : file[k] = x})]

RECURSIVE Sum(_)
Sum(counts) == IF counts = <<>> THEN 0 ELSE Head(counts) + Sum(Tail(counts))

Leetable(word) ==
    Cardinality({k \in 1..Len(word) : CharLower(word[k]) \in DOMAIN LEET_MAP})

\* The command lines: --mode, --leet, --reverse, --dedupe and --processes
\* vary, --min-order and --max-order keep their defaults.
GenArgs ==
    [mode : {"permutation", "combination", "both"}, leet : BOOLEAN,
     reverse : BOOLEAN, dedupe : BOOLEAN, processes : 1..MaxProcesses,
     min_order : {1}, max_order : {NoneVal}]

InitGen ==
    /\ gpc = "start"
    /\ keywords \in SeqsUpTo(KeywordPool, MaxKeywords)
    /\ patterns \in PatternLists
    /\ args \in GenArgs
    /\ args.leet =>
          /\ Sum([k \in 1..Len(keywords) |-> Leetable(keywords[k])]) <= MaxLeetable
          /\ Len(patterns) <= MaxLeetPatterns
    /\ chunks = <<>>
    /\ done_chunks = {}
    /\ results = <<>>
    /\ output_file = <<>>
    /\ total_count = 0
    /\ previous_output = NoOutput
    /\ pc = "Generator"
    /\ wordlist_exists = FALSE
    /\ wordlist = <<>>
    /\ script = <<>>
    /\ num_workers = 1
    /\ passwords = <<>>
    /\ status = <<>>
    /\ result = <<>>
    /\ invocations = <<>>
    /\ consumed = {}
    /\ completed = 0
    /\ total = 0
    /\ found_password = NoneVal
    /\ ret = NoneVal
    /\ report = ""
    /\ first_correct = 0
    /\ begun_at_latch = {}
    /\ prior_found = FALSE
    /\ cli = NoCli

\* Lines 264-266: no keyword was loaded.
NoKeywords ==
    /\ gpc = "start"
    /\ Len(keywords) = 0
    /\ gpc' = "exit1"
    /\ UNCHANGED <<keywords, patterns, args, chunks, done_chunks, results,
                   output_file, total_count, previous_output>>
    /\ UNCHANGED testervars

\* Lines 268-326: the output file is cleared, the orders are split into
\* chunks and pool.map hands them to the workers.
StartPool ==
    /\ gpc = "start"
    /\ Len(keywords) # 0
    /\ output_file' = <<>>
    /\ chunks' = Chunks(Orders(keywords, args), args)
    /\ results' = [c \in 1..Len(chunks') |-> 0]
    /\ done_chunks' = {}
    /\ total_count' = 0
    /\ gpc' = "pool"
    /\ UNCHANGED <<keywords, patterns, args, previous_output>>
    /\ UNCHANGED testervars

\* Lines 107-187: a worker process runs worker(chunks[c], ...): it builds
\* local_results, appends them to the output file and returns their number.
worker(c) ==
    /\ gpc = "pool"
    /\ c \in (1..Len(chunks)) \ done_chunks
    /\ \E local_results \in LocalResults(chunks[c], keywords, patterns, args) :
          /\ output_file' = output_file \o local_results
          /\ results' = [results EXCEPT ![c] = Len(local_results)]
    /\ done_chunks' = done_chunks \cup {c}
    /\ UNCHANGED <<gpc, keywords, patterns, args, chunks, total_count,
                   previous_output>>
    /\ UNCHANGED testervars

\* Lines 326-330: pool.map has returned; the counts are summed.
Finish ==
    /\ gpc = "pool"
    /\ done_chunks = 1..Len(chunks)
    /\ total_count' = Sum(results)
    /\ gpc' = "done"
    /\ UNCHANGED <<keywords, patterns, args, chunks, done_chunks, results,
                   output_file, previous_output>>
    /\ UNCHANGED testervars

\* The program is executed once more with the same command line and the
\* same keywords file; what the earlier execution wrote is remembered.
RunAgain ==
    /\ gpc = "done"
    /\ ~previous_output.ran
    /\ previous_output' = [ran |-> TRUE, entries |-> BagOf(output_file)]
    /\ gpc' = "start"
    /\ chunks' = <<>>
    /\ done_chunks' = {}
    /\ results' = <<>>
    /\ total_count' = 0
    /\ UNCHANGED <<keywords, patterns, args, output_file>>
    /\ UNCHANGED testervars

NextGen ==
    \/ NoKeywords
    \/ StartPool
    \/ \E c \in 1..Len(chunks) : worker(c)
    \/ Finish
    \/ RunAgain

SpecGen == InitGen /\ [][NextGen]_vars


\* ==================================================================== claims
Latched == found_password # NoneVal

\* The candidates of the wordlist for which the Verifier returns Correct.
CorrectUnits ==
    {i \in 1..Len(wordlist) : test_password_worker(script[i], wordlist[i]).is_correct}

\* The marker tokens of a tool answer, read off its two streams.
TokensOf(res) ==
    {res.stdout[k] : k \in 1..Len(res.stdout)} \cup
    {res.stderr[k] : k \in 1..Len(res.stderr)}

FailureMarkers == {"Incorrect password", "Wrong password"}

\* C1: within a run found_password goes from empty to a value at most once
\* and is never overwritten afterwards, whatever the completion order and
\* however many candidates verify as Correct.
C1_LatchedOnce == [][Latched => found_password' = found_password]_vars

\* C1 witness: the result is latched while another finished unit holds a
\* Correct outcome for a different candidate.
C1_Witness ==
    /\ Latched
    /\ \E i \in Units \ consumed :
          /\ status[i] = "finished"
          /\ result[i].is_correct
          /\ result[i].password # found_password

\* C2: a run that dispatched returns None ("not found") only if none of the
\* outcomes the dispatcher consumed was Correct; once a Correct outcome is
\* latched the run does not report "not found".
C2_NotFoundOnlyWithoutCorrect ==
    pc \in {"Found", "Exhausted"} =>
        /\ (ret = NoneVal \/ report = "not found") =>
               /\ ~Latched
               /\ \A i \in consumed : ~result[i].is_correct
        /\ Latched => (ret = found_password /\ pc = "Found")

\* C2 witness: a run returned after latching a Correct outcome.
C2_Witness == pc = "Found" /\ Latched /\ first_correct \in consumed

\* C3: the returned candidate is one the Verifier found Correct, it is the
\* candidate of the first Correct outcome the dispatcher consumed, and with
\* exactly one Correct candidate every run returns that candidate.
C3_FirstCorrectArrivalWins ==
    /\ pc = "Found" =>
          /\ first_correct \in CorrectUnits
          /\ ret = passwords[first_correct]
          /\ result[first_correct].is_correct
    /\ (pc \in {"Found", "Exhausted"} /\ Cardinality(CorrectUnits) = 1) =>
          \A i \in CorrectUnits : pc = "Found" /\ ret = wordlist[i]

\* C3 witness: the run returns a later candidate of the wordlist although an
\* earlier, different candidate is Correct too.
C3_Witness ==
    /\ pc = "Found"
    /\ \E j \in CorrectUnits : j < first_correct /\ wordlist[j] # ret

\* C4: "not found" is returned only after every candidate has been
\* dispatched and its outcome resolved and consumed by the dispatcher, or the
\* unit was cancelled; no candidate is skipped.
C4_ExhaustedAfterAllConsumed ==
    pc = "Exhausted" =>
        /\ Len(status) = Len(wordlist)
        /\ \A i \in Units :
              \/ status[i] = "cancelled"
              \/ /\ i \in consumed
                 /\ status[i] = "finished"
                 /\ invocations[i] >= 1
                 /\ result[i].method \in {"wrong", "error"}

\* C4 witness: a run over several candidates with no Correct one has ended,
\* with Incorrect and Indeterminate outcomes among them.
C4_Witness ==
    /\ pc = "Exhausted"
    /\ Len(wordlist) >= 2
    /\ \E i, j \in Units : result[i].method = "wrong" /\ result[j].method = "error"

\* C5: with exactly one Correct candidate, a candidate whose verification had
\* not begun when the Correct outcome was latched is never verified.
C5_UnstartedNeverVerified ==
    (Cardinality(CorrectUnits) = 1 /\ Latched) =>
        \A i \in Units \ begun_at_latch : invocations[i] = 0

\* C6: after the latch no worker starts test_password_worker for a unit that
\* was not yet executing, the units already in the pool's call queue included.
C6_NoStartAfterLatch ==
    [][Latched =>
         \A i \in Units : status[i] \in {"pending", "queued", "cancelled"}
                              => status'[i] \in {"pending", "queued", "cancelled"}]_vars

\* C7: after the latch test_from_wordlist can return at once: no unit that is
\* still running its verification has to complete first.
C7_ReturnsWithoutWaiting ==
    (pc = "Shutdown" /\ Latched /\ UnitsIn({"pending", "queued"}) = {})
        => ENABLED Return

\* C8: every call of test_from_wordlist returns when every external call
\* ends within its timeout: a run that dispatched reaches Found or Exhausted
\* (a call the setup checks reject returns without dispatching).
C8_RunTerminates == <>(pc \in {"Found", "Exhausted", "Rejected"})

\* C8 witness: a run returned Found although units were still queued or
\* running when the Correct outcome was latched.
C8_Witness ==
    /\ pc = "Found"
    /\ \E i \in Units : i \notin consumed /\ status[i] = "finished"
    /\ \E i \in Units : status[i] = "cancelled"

\* C9: a primary invocation that returns normally with "All OK" in its output
\* gives Correct / "unrar t" whatever the exit status and the other markers;
\* otherwise one with a failure marker gives Incorrect / "wrong"; in both
\* cases there is no second invocation.
C9_PrimaryMarkersDecide ==
    \A i \in Units :
        (invocations[i] >= 1 /\ ~script[i].primary.raised) =>
            IF "All OK" \in TokensOf(script[i].primary)
              THEN /\ status[i] = "finished"
                   /\ result[i] = Outcome(TRUE, passwords[i], "unrar t")
                   /\ invocations[i] = 1
            ELSE (TokensOf(script[i].primary) \cap FailureMarkers # {}) =>
                   /\ status[i] = "finished"
                   /\ result[i] = Outcome(FALSE, passwords[i], "wrong")
                   /\ invocations[i] = 1

\* C9 witness: the primary invocation failed its exit status and printed both
\* the success marker and a failure marker, and the verdict is reported.
C9_Witness ==
    /\ pc = "DirectDone"
    /\ script[1].primary.returncode = 1
    /\ "All OK" \in TokensOf(script[1].primary)
    /\ TokensOf(script[1].primary) \cap FailureMarkers # {}

ListingEvidence == {"README", ".txt", "files", "FILES"}

\* The primary answer is ambiguous: exit status success and no marker.
Ambiguous(res) ==
    /\ ~res.raised
    /\ res.returncode = 0
    /\ TokensOf(res) \cap ({"All OK"} \cup FailureMarkers) = {}

\* C10: after an ambiguous primary answer the secondary invocation decides:
\* Correct / "unrar lt" exactly when it exits with success, shows no failure
\* marker and shows listing evidence; Incorrect / "wrong" when it shows a
\* failure marker; Indeterminate / "error" otherwise.
C10_SecondaryDecides ==
    \A i \in Units :
        (status[i] = "finished" /\ Ambiguous(script[i].primary)) =>
            LET r2 == script[i].secondary
                listed == /\ ~r2.raised
                          /\ r2.returncode = 0
                          /\ TokensOf(r2) \cap FailureMarkers = {}
                          /\ TokensOf(r2) \cap ListingEvidence # {}
                failed == ~r2.raised /\ TokensOf(r2) \cap FailureMarkers # {}
            IN  /\ invocations[i] = 2
                /\ result[i] = IF listed THEN Outcome(TRUE, passwords[i], "unrar lt")
                               ELSE IF failed THEN Outcome(FALSE, passwords[i], "wrong")
                               ELSE Outcome(FALSE, passwords[i], "error")

\* C10 witness: the secondary listing shows only the upper-case word FILES and
\* the candidate is reported found by the second method.
C10_Witness ==
    /\ pc = "DirectDone"
    /\ Ambiguous(script[1].primary)
    /\ TokensOf(script[1].secondary) = {"FILES"}
    /\ result[1].method = "unrar lt"


\* C11: test_password_worker is total: a timeout, a spawn failure or any
\* other exception of the first or of the second invocation gives the
\* outcome (False, password, "error"); every call ends with exactly one
\* outcome, which carries the candidate it was given.
C11_WorkerTotal ==
    /\ pc = "Direct" => ENABLED NextDirect
    /\ \A i \in Units :
          /\ status[i] = "finished" =>
                /\ result[i].password = passwords[i]
                /\ result[i].method \in {"unrar t", "unrar lt", "wrong", "error"}
                /\ result[i].is_correct <=> result[i].method \in {"unrar t", "unrar lt"}
          /\ (invocations[i] >= 1 /\ script[i].primary.raised) =>
                /\ status[i] = "finished"
                /\ result[i] = Outcome(FALSE, passwords[i], "error")
          /\ (status[i] = "finished" /\ Ambiguous(script[i].primary)
                /\ script[i].secondary.raised) =>
                result[i] = Outcome(FALSE, passwords[i], "error")

\* C11 witness: the second invocation timed out and the call still returned,
\* reporting an error for the candidate.
C11_Witness ==
    /\ pc = "DirectDone"
    /\ Ambiguous(script[1].primary)
    /\ script[1].secondary.raised
    /\ report = "error"
    /\ ret = "False"

\* C17: a candidate causes at most two external invocations, the second one
\* only after a first that returned normally with exit status success and no
\* marker; a first invocation with a failing exit status and no marker gives
\* (False, password, "error") with no second invocation.
C17_AtMostTwoInvocations ==
    \A i \in Units :
        /\ invocations[i] <= 2
        /\ (invocations[i] = 2 \/ status[i] = "secondary") => Ambiguous(script[i].primary)
        /\ (/\ status[i] = "finished"
            /\ ~script[i].primary.raised
            /\ script[i].primary.returncode # 0
            /\ TokensOf(script[i].primary) \cap ({"All OK"} \cup FailureMarkers) = {}) =>
               /\ invocations[i] = 1
               /\ result[i] = Outcome(FALSE, passwords[i], "error")

\* C17 witness: the first invocation failed its exit status with no marker in
\* its output and the call returned an error after that single invocation.
C17_Witness ==
    /\ pc = "DirectDone"
    /\ ~script[1].primary.raised
    /\ script[1].primary.returncode = 1
    /\ TokensOf(script[1].primary) = {"noise"}
    /\ invocations[1] = 1
    /\ report = "error"


\* Unit i is inside an external call that does not return before the timeout.
Blocked(i) == status[i] = "primary" /\ script[i].primary.raised

\* C12: a candidate whose external call times out resolves to
\* (False, password, "error"); while its worker is blocked and the pool has
\* more than one worker, the other workers go on taking and completing
\* units and the dispatcher goes on consuming finished ones; a Correct
\* candidate that another worker has started is found by the run.
C12_TimeoutContained ==
    /\ \A i \in Units :
          (script[i].primary.raised /\ status[i] = "finished") =>
              result[i] = Outcome(FALSE, passwords[i], "error")
    /\ \A i \in Units :
          (Blocked(i) /\ num_workers > 1) =>
              /\ \A j \in Units \ {i} :
                    /\ status[j] = "primary" => ENABLED RunPrimary(j)
                    /\ status[j] = "secondary" => ENABLED RunSecondary(j)
                    /\ (status[j] = "finished" /\ j \notin consumed
                          /\ pc = "Dispatching") => ENABLED Consume(j)
              /\ (/\ UnitsIn({"queued"}) # {}
                  /\ Cardinality(UnitsIn({"primary", "secondary"})) < num_workers)
                     => ENABLED PickUp
    /\ (/\ pc \in {"Found", "Exhausted"}
        /\ \E i \in Units : script[i].primary.raised /\ invocations[i] >= 1
        /\ \E j \in Units : invocations[j] >= 1 /\ result[j].is_correct) =>
           /\ pc = "Found"
           /\ \E j \in Units : result[j].is_correct /\ ret = passwords[j]

\* C12 witness: a Correct outcome computed by a second worker has been
\* latched while an earlier unit is still blocked in its external call.
C12_Witness ==
    /\ num_workers > 1
    /\ Latched
    /\ \E i, j \in Units :
          /\ i < j
          /\ Blocked(i)
          /\ j \in consumed
          /\ result[j].is_correct


\* The units whose result this step's loop iteration retrieves.
JustConsumed == consumed' \ consumed

\* C13: an Indeterminate outcome, or an exception raised by future.result(),
\* does not end the run: the loop goes on with the remaining futures; the
\* loop is left only on a Correct outcome or when every future was consumed.
C13_OnlyCorrectOrExhaustionEndsRun ==
    [][/\ \A i \in Units :
             (i \in JustConsumed /\ result[i].method \in {"error", "exception"}) =>
                 /\ pc' = "Dispatching"
                 /\ found_password' = found_password
                 /\ status' = status
                 /\ completed' = completed + 1
       /\ (pc = "Dispatching" /\ pc' # "Dispatching") =>
             \/ \E i \in JustConsumed :
                   result[i].is_correct /\ found_password' = result[i].password
             \/ consumed = Units]_vars

\* C13 witness: the run found the password after its loop had consumed an
\* Indeterminate outcome and a future that raised.
C13_Witness ==
    /\ pc = "Found"
    /\ \E i, j \in consumed :
          result[i].method = "error" /\ result[j].method = "exception"


\* A run over candidates of which exactly one verifies Correct by the primary
\* test and every other one yields the wrong-password marker.
OneCorrectOthersWrong ==
    /\ passwords # <<>>
    /\ \E k \in 1..Len(passwords) :
          /\ test_password_worker(script[k], passwords[k]).method = "unrar t"
          /\ \A j \in 1..Len(passwords) \ {k} :
                test_password_worker(script[j], passwords[j]).method = "wrong"

\* The Incorrect outcomes the run has counted: those its loop consumed.
IncorrectCount == Cardinality({i \in consumed : result[i].method = "wrong"})

\* C14 as stated: in such a run the Correct candidate is returned with the
\* primary-test method and the run has counted N-1 Incorrect outcomes,
\* whatever the completion order.
C14_IncorrectCountIsAllOthers ==
    (pc = "Found" /\ OneCorrectOthersWrong) =>
        /\ ret = passwords[first_correct]
        /\ result[first_correct].method = "unrar t"
        /\ IncorrectCount = Len(passwords) - 1

\* C14 amended: in such a run the Correct candidate is returned with the
\* primary-test method, and the run has counted the Incorrect outcomes that
\* arrived before the Correct one: completed - 1 of them, between 0 and N-1.
C14_IncorrectCountIsArrivedBefore ==
    (pc = "Found" /\ OneCorrectOthersWrong) =>
        /\ ret = passwords[first_correct]
        /\ result[first_correct].method = "unrar t"
        /\ IncorrectCount = completed - 1
        /\ IncorrectCount \in 0..(Len(passwords) - 1)
        /\ consumed \ {first_correct} = {i \in consumed : result[i].method = "wrong"}

\* C14 witness: such a run over three candidates has returned the password
\* and has counted no Incorrect outcome, the Correct one having arrived first.
C14_Witness ==
    /\ pc = "Found"
    /\ OneCorrectOthersWrong
    /\ Len(passwords) = 3
    /\ IncorrectCount = 0


\* The lines that hold no password.
BlankLines == {"", " "}

\* The wordlist file is missing or has no non-empty line.
NoCandidateSource ==
    ~wordlist_exists \/ \A k \in 1..Len(wordlist) : wordlist[k] \in BlankLines

\* C15: with a missing wordlist, or one with no non-empty line,
\* test_from_wordlist reports the error and returns None without creating the
\* pool or starting a verification, and found_password keeps its value.
C15_SetupErrorStartsNothing ==
    /\ [](pc = "Rejected" => (status = <<>> /\ invocations = <<>> /\ ret = NoneVal))
    /\ [][(pc = "Idle" /\ NoCandidateSource /\ pc' # "Idle") =>
             /\ pc' = "Rejected"
             /\ ret' = NoneVal
             /\ report' = IF wordlist_exists THEN "no passwords"
                          ELSE "wordlist not found"
             /\ status' = <<>>
             /\ invocations' = <<>>
             /\ found_password' = found_password]_vars

\* C15 witness: a call on a file of blank lines was rejected while
\* found_password still holds the password an earlier run found.
C15_Witness ==
    /\ pc = "Rejected"
    /\ wordlist_exists
    /\ wordlist # <<>>
    /\ Latched
    /\ prior_found

\* C18: a run that passes the setup checks starts with found_password empty
\* and completed = 0, whatever the earlier runs of the process left; a run
\* with no Correct candidate returns None also after a run that found one.
C18_ResetAtRunStart ==
    /\ (pc = "Dispatching" /\ consumed = {}) =>
          (found_password = NoneVal /\ completed = 0)
    /\ pc = "Dispatching" => completed = Cardinality(consumed)
    /\ (/\ pc \in {"Found", "Exhausted"}
        /\ \A i \in 1..Len(passwords) :
              ~test_password_worker(script[i], passwords[i]).is_correct) =>
           (pc = "Exhausted" /\ ret = NoneVal /\ found_password = NoneVal)
    /\ pc = "Found" =>
          \E i \in consumed : result[i].is_correct /\ ret = passwords[i]

\* C18 witness: a run with no Correct candidate has returned "not found" in
\* a process where an earlier run had found a password.
C18_Witness ==
    /\ pc = "Exhausted"
    /\ prior_found
    /\ report = "not found"


\* C19: an Indeterminate outcome does not end the wordlist run and what the
\* run prints for it differs from what it prints for an Incorrect outcome
\* at the same place ("error", not the line of a wrong password).
C19_IndeterminateReportedDistinctly ==
    [][\A i \in Units :
          (i \in JustConsumed /\ result[i].method = "error") =>
             /\ pc' = "Dispatching"
             /\ found_password' = found_password
             /\ report' # LoopPrint(Outcome(FALSE, passwords[i], "wrong"),
                                    completed', total, report)]_vars


\* C16: the command-line program exits with a non-zero status when -f is
\* missing or names a path that does not exist, and with status 0 otherwise,
\* whether or not a password was found.
C16_ExitStatusTellsMissingTarget ==
    cli.pc = "exited" =>
        (cli.exit # 0 <=> cli.file \in {"none", "missing"})

\* The tool invocations made so far for the -p password.
PasswordVerifications ==
    IF cli.pc = "direct" THEN invocations[1] ELSE cli.p_tests

\* C20: when -p and -w are both given only the wordlist is used: the -p
\* password is never verified in that invocation.
C20_PasswordIgnoredWithWordlist ==
    (cli.pc # "none" /\ cli.password # NoneVal /\ cli.wordlist) =>
        PasswordVerifications = 0


\* C21: for fixed keywords, patterns and options (--leet included) every
\* execution of the generator writes the same multiset of entries to the
\* output file, whatever the order in which the workers append.
C21_SameEntriesEveryExecution ==
    (gpc = "done" /\ previous_output.ran) =>
        BagOf(output_file) = previous_output.entries

\* C22: with --dedupe no entry is in the output file more than once, also
\* when the orders are split over several chunks.
C22_DedupeLeavesNoDuplicate ==
    (gpc = "done" /\ args.dedupe) =>
        \A j, k \in 1..Len(output_file) :
            output_file[j] = output_file[k] => j = k

====
